---- MODULE Spec2Model ----
(***************************************************************************)
(* Sensor monitoring programs of the repository:                           *)
(*   ESD_Essentials_project.py  (variant "gui": Tk window + sensor thread) *)
(*   Sensor_CSV.py              (variant "headless": console loop)         *)
(* Numbers with decimals (temperature in degrees C, level in cm) are kept  *)
(* as integers in hundredths: 23.5 is 2350, 400.01 is 40001.               *)
(***************************************************************************)
EXTENDS Integers, Sequences, FiniteSets, TLC

(***************************************************************************)
(* Python values.  Every value is a record of one shape, so that values of *)
(* different Python types can be compared (x == "N/A", x is None).         *)
(***************************************************************************)
None == [ty |-> "None", n |-> 0, s |-> ""]
Float(x) == [ty |-> "float", n |-> x, s |-> ""]
PyInt(i) == [ty |-> "int", n |-> i, s |-> ""]
Str(t) == [ty |-> "str", n |-> 0, s |-> t]
DateTime(sec) == [ty |-> "datetime", n |-> sec, s |-> ""]

\* str(v) as csv.writer writes a cell: a str is written as it is, a number as
\* its decimal text (kept as the number and the type it was printed from).
str(v) == IF v.ty = "str" THEN v ELSE [ty |-> "str", n |-> v.n, s |-> v.ty]

\* float(x): of a float the float itself, of an int its value, of a decimal
\* text the number it spells; anything else raises ValueError/TypeError.
CanFloat(x) == x.ty \in {"float", "int"} \/ (x.ty = "str" /\ x.s \in {"float", "int"})
float(x) == Float(x.n)

\* int(x) of a text: only the text of an int parses.
CanInt(x) == x.ty = "int" \/ (x.ty = "str" /\ x.s = "int")
int(x) == PyInt(x.n)

TimeFormat == "%Y-%m-%d %H:%M:%S"
\* datetime.strftime / datetime.strptime with TimeFormat (second resolution)
strftime(dt) == [ty |-> "str", n |-> dt.n, s |-> TimeFormat]
CanStrptime(t) == t.ty = "str" /\ t.s = TimeFormat
strptime(t) == DateTime(t.n)

\* the mutant of C3: lst[:n], the oldest records kept
FirstN(lst, n) == IF Len(lst) <= n THEN lst ELSE SubSeq(lst, 1, n)

\* lst[-n:]
LastN(lst, n) == IF Len(lst) <= n THEN lst ELSE SubSeq(lst, Len(lst) - n + 1, Len(lst))

(***************************************************************************)
(* The durable store (essentials_log.csv / raw_log.csv): file_exists says  *)
(* whether the file is there, store is the sequence of its rows, each row  *)
(* the sequence of its cells' texts (no rows when the file is absent).     *)
(***************************************************************************)
Header == <<Str("Timestamp"), Str("TEMP"), Str("PPM"), Str("LEVEL"), Str("Anomaly")>>
\* csv.writer.writerow(cells)
writerow(cells) == [i \in 1..Len(cells) |-> str(cells[i])]

\* keep only the last max_len records
max_len == 100

(***************************************************************************)
(* Bounds of the exploration.                                              *)
(***************************************************************************)
MaxRounds == 2
MaxStarts == 2
LongRounds == 102
\* the record rows of a store that read_csv_data is given to read
MaxCsvRows == 2
\* read_ultrasonic's clock is followed for MaxClock ticks, and beyond them
\* until the deadline the function is waiting for has passed
MaxClock == 12

(***************************************************************************)
(* What the environment may do in a run: the readings the sensors may      *)
(* give, the seconds that may pass in a round, the rounds and process      *)
(* starts explored, the store the first process finds.                     *)
(*   EnvValues: one round over every boundary reading;                     *)
(*   EnvSmall:  few readings, several rounds, the UI moving its            *)
(*              thresholds;                                                *)
(*   EnvRestart: one round per process, several process starts, the        *)
(*              window closed / Ctrl+C pressed at any moment;              *)
(*   EnvLong:   one reading per round for more than max_len rounds;        *)
(*   EnvCsv:    present and absent readings, read_csv_data called while    *)
(*              the loop runs;                                             *)
(*   EnvScript: three rounds with the readings 23.5 C / no gas / 120.34    *)
(*              cm, then no temperature / gas / no distance, then 55.0 C   *)
(*              / no gas / 120.0 cm (the gas pin is LOW, 0, on gas).       *)
(***************************************************************************)
EnvValues ==
  [name |-> "values", variants |-> {"gui", "headless"},
   temps |-> {None, Float(-100), Float(0), Float(2350), Float(5000), Float(5001)},
   gas |-> {0, 1},
   levels |-> {None, Float(-1), Float(0), Float(12034), Float(40000), Float(40001)},
   ticks |-> {1}, rounds |-> 1, starts |-> 1, restartUntil |-> 0,
   tempThresholds |-> {5000}, gasThresholds |-> {1}, refreshFrom |-> 0,
   shutdown |-> FALSE, csv |-> FALSE, script |-> <<>>]

EnvSmall ==
  [name |-> "small", variants |-> {"gui", "headless"},
   temps |-> {None, Float(2350)},
   gas |-> {0, 1},
   levels |-> {Float(12034)},
   ticks |-> {1}, rounds |-> MaxRounds, starts |-> 1, restartUntil |-> 0,
   tempThresholds |-> {2000, 5000}, gasThresholds |-> {0, 1}, refreshFrom |-> 0,
   shutdown |-> FALSE, csv |-> FALSE, script |-> <<>>]

EnvRestart ==
  [name |-> "restart", variants |-> {"gui", "headless"},
   temps |-> {Float(2350)},
   gas |-> {1},
   levels |-> {None, Float(12034)},
   ticks |-> {0, 1}, rounds |-> 1, starts |-> MaxStarts, restartUntil |-> 1,
   tempThresholds |-> {5000}, gasThresholds |-> {1}, refreshFrom |-> 0,
   shutdown |-> TRUE, csv |-> FALSE, script |-> <<>>]

EnvLong ==
  [name |-> "long", variants |-> {"gui"},
   temps |-> {Float(2350)},
   gas |-> {1},
   levels |-> {Float(12034)},
   ticks |-> {1}, rounds |-> LongRounds, starts |-> 1, restartUntil |-> 0,
   tempThresholds |-> {5000}, gasThresholds |-> {1}, refreshFrom |-> max_len - 1,
   shutdown |-> FALSE, csv |-> FALSE, script |-> <<>>]

EnvCsv ==
  [name |-> "csv", variants |-> {"gui"},
   temps |-> {None, Float(2350)},
   gas |-> {0, 1},
   levels |-> {None, Float(12034)},
   ticks |-> {1}, rounds |-> MaxRounds, starts |-> 1, restartUntil |-> 0,
   tempThresholds |-> {5000}, gasThresholds |-> {1}, refreshFrom |-> MaxRounds + 1,
   shutdown |-> FALSE, csv |-> TRUE, script |-> <<>>]

EnvScript ==
  [name |-> "script", variants |-> {"gui", "headless"},
   temps |-> {}, gas |-> {}, levels |-> {},
   ticks |-> {1}, rounds |-> 3, starts |-> 1, restartUntil |-> 0,
   tempThresholds |-> {5000}, gasThresholds |-> {1}, refreshFrom |-> 0,
   shutdown |-> FALSE, csv |-> FALSE,
   script |-> <<[temp |-> Float(2350), gas |-> 1, level |-> Float(12034)],
                [temp |-> None, gas |-> 0, level |-> None],
                [temp |-> Float(5500), gas |-> 1, level |-> Float(12000)]>>]

Profiles == {EnvValues, EnvSmall, EnvRestart, EnvLong, EnvCsv, EnvScript}

VARIABLES
  env,            \* the environment's profile (never changes)
  variant,        \* which program runs: "gui" or "headless"
  starts,         \* process starts so far
  now,            \* wall clock, whole seconds
  file_exists, store,
  pc,             \* position of the process / of sensor_loop
  round,          \* completed rounds of this process
  timestamp, temperature, temp_val, ppm_val, level, level_val, anomaly,
  times, temps, gas_values, levels,          \* SensorApp's data containers
  temp_threshold, gas_threshold,             \* SensorApp's Tk variables
  upc,            \* position of update_plots (Tk main thread)
  temps_clean, levels_clean, last_temp, last_gas, last_level, fault_msg,
  published,      \* history: the samples sensor_loop has appended to the containers
  gpio,           \* the pins: "setup" (GPIO.setup done), "failed" (it raised) or "cleaned"
  exit_pc,        \* history: where the loop stood when the process exited
  file_lock,      \* threading.Lock(): "free" or its holder
  rpc,            \* position in read_csv_data
  r_next,         \* the row of the store the csv reader yields next
  times_list, temps_list, ppm_list, levels_list,   \* read_csv_data's lists
  reads,          \* history: the reads of each sensor in the round under way
  produced,       \* history: the sample and the flag of each round of this process
  obs,            \* history: the round each of last_temp/last_gas/last_level came from
  \* one call of read_ultrasonic, time in ticks of 10 ms
  ppc,            \* position in read_ultrasonic
  clock,          \* time.time(), ticks since the call began
  TRIG, ECHO,     \* the levels of the trigger and echo lines
  pulse_start, pulse_end, timeout, distance,
  first_poll, rise_time, fall_time,  \* history: when the echo was first read, rose, fell
  trig_out,       \* history: the levels the call has driven the trigger line to
  \* Experiment.py, the calculator; a text is the sequence of its characters
  expression,     \* the global expression
  entry,          \* the text of the Entry widget
  history         \* the texts of the labels of the history panel

fileVars == <<file_exists, store>>
loopLocals == <<timestamp, temperature, temp_val, ppm_val, level, level_val, anomaly>>
buffers == <<times, temps, gas_values, levels>>
thresholds == <<temp_threshold, gas_threshold>>
uiLocals == <<temps_clean, levels_clean, last_temp, last_gas, last_level, fault_msg, obs>>
probeVars == <<ppc, clock, TRIG, ECHO, pulse_start, pulse_end, timeout, distance,
               first_poll, rise_time, fall_time, trig_out>>
calcVars == <<expression, entry, history>>
fixed == <<env, variant, starts, probeVars, calcVars>>
shut == <<gpio, exit_pc>>
csvLocals == <<rpc, r_next, times_list, temps_list, ppm_list, levels_list>>
hist == <<reads, produced>>
base == <<fixed, shut, file_lock, csvLocals>>
\* what most steps leave alone
rest == <<base, hist>>
sensorVars == <<env, variant, starts, now, file_exists, store, pc, round, loopLocals, buffers,
                thresholds, upc, uiLocals, published, shut, file_lock, csvLocals, hist>>
mainVars == <<sensorVars, calcVars>>
vars == <<mainVars, probeVars>>

\* no instant yet
NoTime == 0 - 1

NoReads == [dht |-> 0, gas |-> 0, level |-> 0]

\* The state of a process that has just been started (the store and the clock
\* are the environment's).
ProcessStart ==
  /\ pc = "startup"
  /\ round = 0
  /\ timestamp = None /\ temperature = None /\ temp_val = None /\ ppm_val = None
  /\ level = None /\ level_val = None /\ anomaly = None
  /\ times = <<>> /\ temps = <<>> /\ gas_values = <<>> /\ levels = <<>>
  /\ temp_threshold = 5000 /\ gas_threshold = 1
  /\ upc = "none"
  /\ temps_clean = <<>> /\ levels_clean = <<>>
  /\ last_temp = None /\ last_gas = None /\ last_level = None /\ fault_msg = None
  /\ published = <<>>
  /\ obs = [temp |-> 0, gas |-> 0, level |-> 0]
  /\ gpio = "setup" /\ exit_pc = "none"
  /\ reads = NoReads /\ produced = <<>>
  /\ file_lock = "free"
  /\ rpc = "idle" /\ r_next = 0
  /\ times_list = <<>> /\ temps_list = <<>> /\ ppm_list = <<>> /\ levels_list = <<>>

\* Experiment.py after its widgets are built: expression = "", an empty Entry,
\* no label in the history panel
CalcStart == expression = <<>> /\ entry = <<>> /\ history = <<>>

\* no call of read_ultrasonic under way
ProbeIdle ==
  /\ ppc = "idle" /\ clock = 0 /\ TRIG = 0 /\ ECHO = 0
  /\ pulse_start = 0 /\ pulse_end = 0 /\ timeout = 0 /\ distance = None
  /\ first_poll = NoTime /\ rise_time = NoTime /\ fall_time = NoTime
  /\ trig_out = <<>>

Init ==
  /\ env \in Profiles
  /\ variant \in env.variants
  /\ starts = 1
  /\ now = 0
  /\ file_exists \in BOOLEAN
  /\ store = <<>>
  /\ ProcessStart
  /\ ProbeIdle
  /\ CalcStart

(***************************************************************************)
(* CSV file setup at import time.                                          *)
(***************************************************************************)
\* gui: open(filename, 'r') succeeds and f.read(1) returns a character
SetupNonEmpty ==
  /\ pc = "startup" /\ variant = "gui"
  /\ file_exists /\ store # <<>>
  /\ pc' = "app_init"
  /\ UNCHANGED <<rest, now, fileVars, round, loopLocals, buffers, thresholds, upc,
                 uiLocals, published>>

\* gui: the file is missing (FileNotFoundError) or f.read(1) returns '' (the
\* code raises FileNotFoundError itself): open(filename, 'w') and write the header
SetupWriteHeader ==
  /\ pc = "startup" /\ variant = "gui"
  /\ ~file_exists \/ store = <<>>
  /\ file_exists' = TRUE
  /\ store' = <<writerow(Header)>>
  /\ pc' = "app_init"
  /\ UNCHANGED <<rest, now, round, loopLocals, buffers, thresholds, upc, uiLocals, published>>

\* gui: the file is there but open(filename, 'r') or f.read(1) raises an IOError
\* (OSError: no read permission, a failing medium); the except clause catches
\* it like a missing file and open(filename, 'w') truncates the file
SetupReadError ==
  /\ pc = "startup" /\ variant = "gui"
  /\ file_exists
  /\ store' = <<writerow(Header)>>
  /\ pc' = "app_init"
  /\ UNCHANGED <<rest, now, file_exists, round, loopLocals, buffers, thresholds, upc,
                 uiLocals, published>>

\* the mutant of C27: the header is written at every start
SetupAppendModeEveryStart ==
  /\ pc = "startup" /\ variant = "headless"
  /\ file_exists' = TRUE
  /\ store' = Append(store, writerow(Header))
  /\ pc' = "timestamp"
  /\ UNCHANGED <<rest, now, round, loopLocals, buffers, thresholds, upc, uiLocals, published>>

\* headless: open(filename, 'a') creates a missing file; the header is written
\* when file.tell() == 0
SetupAppendMode ==
  /\ pc = "startup" /\ variant = "headless"
  /\ file_exists' = TRUE
  /\ store' = IF store = <<>> THEN <<writerow(Header)>> ELSE store
  /\ pc' = "timestamp"
  /\ UNCHANGED <<rest, now, round, loopLocals, buffers, thresholds, upc, uiLocals, published>>

\* both programs: GPIO.setmode / GPIO.setup at import time raise (the pins are
\* not available, no permission on the GPIO device); nothing catches the
\* exception, so the script ends there, before the CSV file setup, before the
\* window is built and before the loop
SetupGPIOErrorIgnored ==
  /\ pc = "startup"
  /\ gpio' = "failed"
  /\ UNCHANGED <<hist, fixed, exit_pc, file_lock, csvLocals, now, fileVars, pc, round,
                 loopLocals, buffers, thresholds, upc, uiLocals, published>>

SetupGPIOError ==
  /\ pc = "startup"
  /\ gpio' = "failed"
  /\ pc' = "aborted"
  /\ UNCHANGED <<hist, fixed, exit_pc, file_lock, csvLocals, now, fileVars, round,
                 loopLocals, buffers, thresholds, upc, uiLocals, published>>

\* gui: SensorApp.__init__ up to start_sensor_thread: the first update_plots()
\* runs on the empty containers (nothing plotted, fault_msg "") and schedules
\* itself; then the sensor thread is started
StartApp ==
  /\ pc = "app_init"
  /\ fault_msg' = Str("")
  /\ upc' = "idle"
  /\ pc' = "timestamp"
  /\ UNCHANGED <<rest, now, fileVars, round, loopLocals, buffers, thresholds,
                 temps_clean, levels_clean, last_temp, last_gas, last_level, obs, published>>

(***************************************************************************)
(* sensor_loop (gui, a daemon thread) / the main loop (headless)           *)
(***************************************************************************)
ReadTimestamp ==
  /\ pc = "timestamp"
  /\ round < env.rounds
  /\ timestamp' = strftime(DateTime(now))
  /\ pc' = "dht"
  /\ reads' = NoReads
  /\ UNCHANGED <<base, produced, now, fileVars, round, temperature, temp_val, ppm_val, level,
                 level_val, anomaly, buffers, thresholds, upc, uiLocals, published>>

\* what the sensors may give in the round under way
DHTReadings == IF env.script = <<>> THEN env.temps ELSE {env.script[round + 1].temp}
GasReadings == IF env.script = <<>> THEN env.gas ELSE {env.script[round + 1].gas}
LevelReadings == IF env.script = <<>> THEN env.levels ELSE {env.script[round + 1].level}

\* the mutant of C16: a failed read ends the loop like an exception
ReadDHTAbsentIsError ==
  /\ pc = "dht"
  /\ \E t \in DHTReadings :
       /\ temperature' = t
       /\ temp_val' = IF t # None THEN t ELSE Str("N/A")
       /\ pc' = IF t # None THEN "gas" ELSE "dead"
  /\ reads' = [reads EXCEPT !.dht = @ + 1]
  /\ UNCHANGED <<base, produced, now, fileVars, round, timestamp, ppm_val, level, level_val,
                 anomaly, buffers, thresholds, upc, uiLocals, published>>

\* humidity, temperature = Adafruit_DHT.read(...): a float, or None
ReadDHT ==
  /\ pc = "dht"
  /\ \E t \in DHTReadings :
       /\ temperature' = t
       /\ temp_val' = IF t # None THEN t ELSE Str("N/A")
  /\ pc' = "gas"
  /\ reads' = [reads EXCEPT !.dht = @ + 1]
  /\ UNCHANGED <<base, produced, now, fileVars, round, timestamp, ppm_val, level, level_val,
                 anomaly, buffers, thresholds, upc, uiLocals, published>>

\* gas_state = GPIO.input(GAS_DO_PIN): LOW (0) means gas detected
ReadGas ==
  /\ pc = "gas"
  /\ gpio = "setup"
  /\ \E gas_state \in GasReadings :
       LET gas_detected == (gas_state = 0)
       IN  ppm_val' = IF gas_detected THEN PyInt(1) ELSE PyInt(0)
  /\ pc' = "ultrasonic"
  /\ reads' = [reads EXCEPT !.gas = @ + 1]
  /\ UNCHANGED <<base, produced, now, fileVars, round, timestamp, temperature, temp_val, level,
                 level_val, anomaly, buffers, thresholds, upc, uiLocals, published>>

\* GPIO.input() on a channel that GPIO.cleanup() has released raises a
\* RuntimeError; nothing in sensor_loop catches it and the thread ends
ReadGasAfterCleanup ==
  /\ pc = "gas"
  /\ gpio = "cleaned"
  /\ pc' = "dead"
  /\ UNCHANGED <<rest, now, fileVars, round, loopLocals, buffers, thresholds, upc,
                 uiLocals, published>>

\* the mutant of C18: a probe that gave None is called once more in the round
ReadLevelRetry ==
  /\ pc = "ultrasonic"
  /\ gpio = "setup"
  /\ \E l \in LevelReadings :
       /\ level' = l
       /\ level_val' = IF l # None THEN l ELSE Str("N/A")
       /\ pc' = IF l = None /\ reads.level = 0 THEN "ultrasonic" ELSE "classify"
  /\ reads' = [reads EXCEPT !.level = @ + 1]
  /\ UNCHANGED <<base, produced, now, fileVars, round, timestamp, temperature, temp_val,
                 ppm_val, anomaly, buffers, thresholds, upc, uiLocals, published>>

\* level = read_ultrasonic(): a distance rounded to 2 places, or None
ReadLevel ==
  /\ pc = "ultrasonic"
  /\ gpio = "setup"
  /\ \E l \in LevelReadings :
       /\ level' = l
       /\ level_val' = IF l # None THEN l ELSE Str("N/A")
  /\ pc' = "classify"
  /\ reads' = [reads EXCEPT !.level = @ + 1]
  /\ UNCHANGED <<base, produced, now, fileVars, round, timestamp, temperature, temp_val,
                 ppm_val, anomaly, buffers, thresholds, upc, uiLocals, published>>

\* read_ultrasonic's first statement, GPIO.output(TRIG, False), raises a
\* RuntimeError once GPIO.cleanup() has released the channel
ReadLevelAfterCleanup ==
  /\ pc = "ultrasonic"
  /\ gpio = "cleaned"
  /\ pc' = "dead"
  /\ UNCHANGED <<rest, now, fileVars, round, loopLocals, buffers, thresholds, upc,
                 uiLocals, published>>

\* the mutant of C2: the upper bounds exclusive
DetectAnomalyExclusive(tv, lv) ==
  IF tv = Str("N/A") \/ lv = Str("N/A") THEN Str("Yes")
  ELSE IF ~(0 <= tv.n /\ tv.n < 50 * 100) \/ ~(0 <= lv.n /\ lv.n < 400 * 100)
       THEN Str("Yes") ELSE Str("No")

\* the mutant of C1: both readings must be missing
DetectAnomalyBothMissing(tv, lv) ==
  IF tv = Str("N/A") /\ lv = Str("N/A") THEN Str("Yes")
  ELSE IF tv = Str("N/A") \/ lv = Str("N/A") THEN Str("No")
  ELSE IF ~(0 <= tv.n /\ tv.n <= 50 * 100) \/ ~(0 <= lv.n /\ lv.n <= 400 * 100)
       THEN Str("Yes") ELSE Str("No")

\* the mutant of C15: detected gas raises the flag too
DetectAnomalyWithGas(tv, lv) ==
  IF ppm_val = PyInt(1) THEN Str("Yes")
  ELSE IF tv = Str("N/A") \/ lv = Str("N/A") THEN Str("Yes")
  ELSE IF ~(0 <= tv.n /\ tv.n <= 50 * 100) \/ ~(0 <= lv.n /\ lv.n <= 400 * 100)
       THEN Str("Yes") ELSE Str("No")

\* the mutant of C28: both readings must be out of range
DetectAnomalyCombinedAnd(tv, lv) ==
  IF tv = Str("N/A") \/ lv = Str("N/A") THEN Str("Yes")
  ELSE IF ~(0 <= tv.n /\ tv.n <= 50 * 100) /\ ~(0 <= lv.n /\ lv.n <= 400 * 100)
       THEN Str("Yes") ELSE Str("No")

\* Simple anomaly detection logic of ESD_Essentials_projec_with_comments.py:
\* one condition over both readings
DetectAnomalyCombined(tv, lv) ==
  IF tv = Str("N/A") \/ lv = Str("N/A") THEN Str("Yes")
  ELSE IF ~(0 <= tv.n /\ tv.n <= 50 * 100) \/ ~(0 <= lv.n /\ lv.n <= 400 * 100)
       THEN Str("Yes") ELSE Str("No")

\* Anomaly detection
DetectAnomaly(tv, lv) ==
  IF tv = Str("N/A") \/ lv = Str("N/A") THEN Str("Yes")
  ELSE LET a1 == IF ~(0 <= tv.n /\ tv.n <= 50 * 100) THEN Str("Yes") ELSE Str("No")
       IN  IF ~(0 <= lv.n /\ lv.n <= 400 * 100) THEN Str("Yes") ELSE a1

Classify ==
  /\ pc = "classify"
  /\ anomaly' = DetectAnomaly(temp_val, level_val)
  /\ pc' = "append"
  /\ produced' = Append(produced, [time |-> timestamp, temp |-> temperature, gas |-> ppm_val,
                                   level |-> level, anomaly |-> anomaly'])
  /\ UNCHANGED <<base, reads, now, fileVars, round, timestamp, temperature, temp_val, ppm_val,
                 level, level_val, buffers, thresholds, upc, uiLocals, published>>

\* where a failed append leaves the loop when the error is swallowed (mutant of C9)
AfterAppendErrorContinue == IF variant = "gui" THEN "pub_times" ELSE "sleep"

\* open()/writerow() raising an IOError is caught nowhere: in gui the exception
\* ends the sensor thread; in headless it leaves the try through finally
\* (GPIO.cleanup()) and ends the process
AfterAppendError == "dead"

\* gui: with file_lock: (the thread waits until the lock is free)
AcquireFileLock ==
  /\ pc = "append" /\ variant = "gui"
  /\ file_lock = "free"
  /\ file_lock' = "loop"
  /\ pc' = "append_locked"
  /\ UNCHANGED <<hist, fixed, shut, csvLocals, now, fileVars, round, loopLocals, buffers,
                 thresholds, upc, uiLocals, published>>

\* the loop is at the statements that open and write the file
AtAppend == IF variant = "gui" THEN pc = "append_locked" ELSE pc = "append"

\* the mutant of C20: the row is put before the record rows already there
AppendRowFirst ==
  /\ AtAppend
  /\ file_exists' = TRUE
  /\ store' = <<store[1], writerow(<<timestamp, temp_val, ppm_val, level_val, anomaly>>)>>
                 \o Tail(store)
  /\ file_lock' = "free"
  /\ pc' = IF variant = "gui" THEN "pub_times" ELSE "sleep"
  /\ UNCHANGED <<hist, fixed, shut, csvLocals, now, round, loopLocals, buffers, thresholds, upc,
                 uiLocals, published>>

\* with open(filename, mode='a') ...: writer.writerow([...]); the file is
\* closed and (gui) the lock released on leaving the with blocks
AppendRow ==
  /\ AtAppend
  /\ file_exists' = TRUE
  /\ store' = Append(store, writerow(<<timestamp, temp_val, ppm_val, level_val, anomaly>>))
  /\ file_lock' = "free"
  /\ pc' = IF variant = "gui" THEN "pub_times" ELSE "sleep"
  /\ UNCHANGED <<hist, fixed, shut, csvLocals, now, round, loopLocals, buffers, thresholds, upc,
                 uiLocals, published>>

AppendRowError ==
  /\ AtAppend
  /\ pc' = AfterAppendError
  /\ file_lock' = "free"
  /\ gpio' = IF variant = "headless" THEN "cleaned" ELSE gpio
  /\ UNCHANGED <<hist, fixed, exit_pc, csvLocals, now, fileVars, round, loopLocals, buffers,
                 thresholds, upc, uiLocals, published>>

\* dt = datetime.strptime(timestamp, ...); self.times.append(dt)
PublishTimes ==
  /\ pc = "pub_times"
  /\ times' = Append(times, strptime(timestamp))
  /\ published' = Append(published, [time |-> DateTime(timestamp.n), temp |-> temperature,
                                     gas |-> ppm_val, level |-> level])
  /\ pc' = "pub_temps"
  /\ UNCHANGED <<rest, now, fileVars, round, loopLocals, temps, gas_values, levels,
                 thresholds, upc, uiLocals>>

PublishTemps ==
  /\ pc = "pub_temps"
  /\ temps' = Append(temps, IF temp_val # Str("N/A") THEN float(temp_val) ELSE None)
  /\ pc' = "pub_gas"
  /\ UNCHANGED <<rest, now, fileVars, round, loopLocals, times, gas_values, levels,
                 thresholds, upc, uiLocals, published>>

PublishGas ==
  /\ pc = "pub_gas"
  /\ gas_values' = Append(gas_values, ppm_val)
  /\ pc' = "pub_levels"
  /\ UNCHANGED <<rest, now, fileVars, round, loopLocals, times, temps, levels,
                 thresholds, upc, uiLocals, published>>

PublishLevels ==
  /\ pc = "pub_levels"
  /\ levels' = Append(levels, IF level_val # Str("N/A") THEN float(level_val) ELSE None)
  /\ pc' = "trim_times"
  /\ UNCHANGED <<rest, now, fileVars, round, loopLocals, times, temps, gas_values,
                 thresholds, upc, uiLocals, published>>

\* if len(self.times) > max_len: self.times = self.times[-max_len:]
TrimTimes ==
  /\ pc = "trim_times"
  /\ IF Len(times) > max_len
     THEN times' = LastN(times, max_len) /\ pc' = "trim_temps"
     ELSE times' = times /\ pc' = "sleep"
  /\ UNCHANGED <<rest, now, fileVars, round, loopLocals, temps, gas_values, levels,
                 thresholds, upc, uiLocals, published>>

TrimTemps ==
  /\ pc = "trim_temps"
  /\ temps' = LastN(temps, max_len)
  /\ pc' = "trim_gas"
  /\ UNCHANGED <<rest, now, fileVars, round, loopLocals, times, gas_values, levels,
                 thresholds, upc, uiLocals, published>>

TrimGas ==
  /\ pc = "trim_gas"
  /\ gas_values' = LastN(gas_values, max_len)
  /\ pc' = "trim_levels"
  /\ UNCHANGED <<rest, now, fileVars, round, loopLocals, times, temps, levels,
                 thresholds, upc, uiLocals, published>>

TrimLevels ==
  /\ pc = "trim_levels"
  /\ levels' = LastN(levels, max_len)
  /\ pc' = "sleep"
  /\ UNCHANGED <<rest, now, fileVars, round, loopLocals, times, temps, gas_values,
                 thresholds, upc, uiLocals, published>>

\* time.sleep(0.5) / time.sleep(0.1): the round is complete
Sleep ==
  /\ pc = "sleep"
  /\ round' = round + 1
  /\ \E d \in env.ticks : now' = now + d
  /\ pc' = "timestamp"
  /\ UNCHANGED <<rest, fileVars, loopLocals, buffers, thresholds, upc, uiLocals, published>>

sensor_loop ==
  \/ ReadTimestamp \/ ReadDHT \/ ReadGas \/ ReadGasAfterCleanup
  \/ ReadLevel \/ ReadLevelAfterCleanup \/ Classify
  \/ AcquireFileLock \/ AppendRow \/ AppendRowError
  \/ PublishTimes \/ PublishTemps \/ PublishGas \/ PublishLevels
  \/ TrimTimes \/ TrimTemps \/ TrimGas \/ TrimLevels
  \/ Sleep

(***************************************************************************)
(* update_plots: a Tk timer callback on the main thread, first run from    *)
(* __init__ and then every 1000 ms.  One step per statement that reads the *)
(* containers; the sensor thread may run between any two of them.          *)
(***************************************************************************)
nan == [ty |-> "float", n |-> 0, s |-> "nan"]
\* [x if x is not None else float('nan') for x in lst]
Clean(lst) == [i \in 1..Len(lst) |-> IF lst[i] # None THEN lst[i] ELSE nan]
\* any(x is not None for x in lst)
AnyNotNone(lst) == \E i \in 1..Len(lst) : lst[i] # None

\* how many appends each container has had in this process: the round its last
\* element comes from
Appended(container) ==
  LET after == CASE container = "times" -> {"pub_temps", "pub_gas", "pub_levels"}
                 [] container = "temps" -> {"pub_gas", "pub_levels"}
                 [] container = "gas_values" -> {"pub_levels"}
                 [] OTHER -> {}
  IN  IF pc \in after \cup {"trim_times", "trim_temps", "trim_gas", "trim_levels", "sleep"}
      THEN round + 1 ELSE round

\* the after(1000, ...) timer fires
TimerFires ==
  /\ upc = "idle"
  /\ round >= env.refreshFrom
  /\ upc' = "l216"
  /\ UNCHANGED <<rest, now, fileVars, pc, round, loopLocals, buffers, thresholds,
                 uiLocals, published>>

\* if self.times and any(t is not None for t in self.temps):
PlotTempIf ==
  /\ upc = "l216"
  /\ upc' = IF times # <<>> /\ AnyNotNone(temps) THEN "l217" ELSE "l225"
  /\ UNCHANGED <<rest, now, fileVars, pc, round, loopLocals, buffers, thresholds,
                 uiLocals, published>>

\* the mutant of C23: the None entries are replaced in the container itself
PlotTempCleanInPlace ==
  /\ upc = "l217"
  /\ temps_clean' = Clean(temps)
  /\ temps' = Clean(temps)
  /\ upc' = "l218"
  /\ UNCHANGED <<rest, now, fileVars, pc, round, loopLocals, times, gas_values, levels,
                 thresholds, levels_clean, last_temp, last_gas, last_level, fault_msg, obs,
                 published>>

\* temps_clean = [t if t is not None else float('nan') for t in self.temps]
PlotTempClean ==
  /\ upc = "l217"
  /\ temps_clean' = Clean(temps)
  /\ upc' = "l218"
  /\ UNCHANGED <<rest, now, fileVars, pc, round, loopLocals, buffers, thresholds,
                 levels_clean, last_temp, last_gas, last_level, fault_msg, obs, published>>

\* self.axs[0].plot(self.times, temps_clean, ...): x and y of different lengths
\* raise ValueError, which ends the callback before it schedules itself again
PlotTemp ==
  /\ upc = "l218"
  /\ upc' = IF Len(times) = Len(temps_clean) THEN "l225" ELSE "stopped"
  /\ UNCHANGED <<rest, now, fileVars, pc, round, loopLocals, buffers, thresholds,
                 uiLocals, published>>

\* if self.times:
PlotGasIf ==
  /\ upc = "l225"
  /\ upc' = IF times # <<>> THEN "l226" ELSE "l234"
  /\ UNCHANGED <<rest, now, fileVars, pc, round, loopLocals, buffers, thresholds,
                 uiLocals, published>>

\* self.axs[1].step(self.times, self.gas_values, ...)
PlotGas ==
  /\ upc = "l226"
  /\ upc' = IF Len(times) = Len(gas_values) THEN "l234" ELSE "stopped"
  /\ UNCHANGED <<rest, now, fileVars, pc, round, loopLocals, buffers, thresholds,
                 uiLocals, published>>

\* if self.times and any(l is not None for l in self.levels):
PlotLevelIf ==
  /\ upc = "l234"
  /\ upc' = IF times # <<>> /\ AnyNotNone(levels) THEN "l235" ELSE "l247"
  /\ UNCHANGED <<rest, now, fileVars, pc, round, loopLocals, buffers, thresholds,
                 uiLocals, published>>

PlotLevelClean ==
  /\ upc = "l235"
  /\ levels_clean' = Clean(levels)
  /\ upc' = "l236"
  /\ UNCHANGED <<rest, now, fileVars, pc, round, loopLocals, buffers, thresholds,
                 temps_clean, last_temp, last_gas, last_level, fault_msg, obs, published>>

PlotLevel ==
  /\ upc = "l236"
  /\ upc' = IF Len(times) = Len(levels_clean) THEN "l247" ELSE "stopped"
  /\ UNCHANGED <<rest, now, fileVars, pc, round, loopLocals, buffers, thresholds,
                 uiLocals, published>>

\* fault_msg = ""; if self.temps and self.gas_values and self.levels:
FaultIf ==
  /\ upc = "l247"
  /\ fault_msg' = Str("")
  /\ upc' = IF temps # <<>> /\ gas_values # <<>> /\ levels # <<>> THEN "l248" ELSE "l260"
  /\ UNCHANGED <<rest, now, fileVars, pc, round, loopLocals, buffers, thresholds,
                 temps_clean, levels_clean, last_temp, last_gas, last_level, obs, published>>

\* last_temp = self.temps[-1]
FaultLastTemp ==
  /\ upc = "l248"
  /\ last_temp' = temps[Len(temps)]
  /\ obs' = [obs EXCEPT !.temp = Appended("temps")]
  /\ upc' = "l249"
  /\ UNCHANGED <<rest, now, fileVars, pc, round, loopLocals, buffers, thresholds,
                 temps_clean, levels_clean, last_gas, last_level, fault_msg, published>>

\* last_gas = self.gas_values[-1]
FaultLastGas ==
  /\ upc = "l249"
  /\ last_gas' = gas_values[Len(gas_values)]
  /\ obs' = [obs EXCEPT !.gas = Appended("gas_values")]
  /\ upc' = "l250"
  /\ UNCHANGED <<rest, now, fileVars, pc, round, loopLocals, buffers, thresholds,
                 temps_clean, levels_clean, last_temp, last_level, fault_msg, published>>

\* last_level = self.levels[-1]
FaultLastLevel ==
  /\ upc = "l250"
  /\ last_level' = levels[Len(levels)]
  /\ obs' = [obs EXCEPT !.level = Appended("levels")]
  /\ upc' = "l252"
  /\ UNCHANGED <<rest, now, fileVars, pc, round, loopLocals, buffers, thresholds,
                 temps_clean, levels_clean, last_temp, last_gas, fault_msg, published>>

\* the fault message of lines 252-258
FaultMessage(lt, lg, ll, tt, gt) ==
  IF lt = None \/ ll = None THEN Str("Critical fault: Sensor data missing!")
  ELSE LET m1 == IF lt.n > tt \/ lg.n > gt THEN Str("Critical fault detected!") ELSE Str("")
       IN  IF ll.n < 0 \/ ll.n > 400 * 100 THEN Str("Critical fault detected!") ELSE m1

FaultCompute ==
  /\ upc = "l252"
  /\ fault_msg' = FaultMessage(last_temp, last_gas, last_level, temp_threshold, gas_threshold)
  /\ upc' = "l260"
  /\ UNCHANGED <<rest, now, fileVars, pc, round, loopLocals, buffers, thresholds,
                 temps_clean, levels_clean, last_temp, last_gas, last_level, obs, published>>

\* self.status_label.config(text=fault_msg, ...); self.root.after(1000,
\* self.update_plots); the callback returns and its locals are gone (fault_msg
\* stays as the label's text)
Reschedule ==
  /\ upc = "l260"
  /\ fault_msg' = fault_msg
  /\ temps_clean' = <<>> /\ levels_clean' = <<>>
  /\ last_temp' = None /\ last_gas' = None /\ last_level' = None
  /\ obs' = [temp |-> 0, gas |-> 0, level |-> 0]
  /\ upc' = "idle"
  /\ UNCHANGED <<rest, now, fileVars, pc, round, loopLocals, buffers, thresholds, published>>

update_plots ==
  \/ TimerFires
  \/ PlotTempIf \/ PlotTempClean \/ PlotTemp
  \/ PlotGasIf \/ PlotGas
  \/ PlotLevelIf \/ PlotLevelClean \/ PlotLevel
  \/ FaultIf \/ FaultLastTemp \/ FaultLastGas \/ FaultLastLevel \/ FaultCompute
  \/ Reschedule

(***************************************************************************)
(* The sliders: Tk runs their callbacks on the main thread, between two    *)
(* runs of update_plots.                                                   *)
(***************************************************************************)
MoveTempSlider ==
  /\ upc \in {"idle", "stopped"}
  /\ \E v \in env.tempThresholds \ {temp_threshold} : temp_threshold' = v
  /\ UNCHANGED <<rest, now, fileVars, pc, round, loopLocals, buffers, gas_threshold, upc,
                 uiLocals, published>>

MoveGasSlider ==
  /\ upc \in {"idle", "stopped"}
  /\ \E v \in env.gasThresholds \ {gas_threshold} : gas_threshold' = v
  /\ UNCHANGED <<rest, now, fileVars, pc, round, loopLocals, buffers, temp_threshold, upc,
                 uiLocals, published>>

\* the positions of the loop
LoopPositions ==
  {"timestamp", "dht", "gas", "ultrasonic", "classify", "append", "append_locked",
   "pub_times", "pub_temps",
   "pub_gas", "pub_levels", "trim_times", "trim_temps", "trim_gas", "trim_levels", "sleep"}

(***************************************************************************)
(* read_csv_data's parse of a row under the header the program writes      *)
(* (lines 87-90).                                                          *)
(***************************************************************************)
RowParses(row) ==
  /\ Len(row) >= 4
  /\ CanStrptime(row[1])
  /\ row[2] = Str("N/A") \/ CanFloat(row[2])
  /\ CanInt(row[3])
  /\ row[4] = Str("N/A") \/ CanFloat(row[4])

ParseRow(row) ==
  [time |-> strptime(row[1]),
   temp |-> IF row[2] # Str("N/A") THEN float(row[2]) ELSE None,
   gas |-> int(row[3]),
   level |-> IF row[4] # Str("N/A") THEN float(row[4]) ELSE None]

(***************************************************************************)
(* read_csv_data.  Nothing in the program calls it; the model lets a       *)
(* caller on a thread other than the sensor thread run it once per         *)
(* process, one step per statement and per row.  csv.DictReader takes the  *)
(* first row of the file as the field names and yields the rows after it.  *)
(***************************************************************************)
\* the mutant of C13: the reader enters without waiting for the lock
CsvAcquireNoLock ==
  /\ env.csv
  /\ rpc = "idle" /\ pc \in LoopPositions \cup {"dead"}
  /\ file_lock' = "reader"
  /\ times_list' = <<>> /\ temps_list' = <<>> /\ ppm_list' = <<>> /\ levels_list' = <<>>
  /\ rpc' = "l83"
  /\ UNCHANGED <<hist, fixed, shut, r_next, now, fileVars, pc, round, loopLocals, buffers,
                 thresholds, upc, uiLocals, published>>

\* lines 80-82: the four empty lists; with file_lock:
CsvAcquire ==
  /\ env.csv
  /\ rpc = "idle" /\ pc \in LoopPositions \cup {"dead"}
  /\ file_lock = "free"
  /\ file_lock' = "reader"
  /\ times_list' = <<>> /\ temps_list' = <<>> /\ ppm_list' = <<>> /\ levels_list' = <<>>
  /\ rpc' = "l83"
  /\ UNCHANGED <<hist, fixed, shut, r_next, now, fileVars, pc, round, loopLocals, buffers,
                 thresholds, upc, uiLocals, published>>

\* lines 83-85: open(filename, 'r') and csv.DictReader(f).  The setup has
\* run before read_csv_data can be called, so the file is there and the
\* FileNotFoundError handler (lines 93-94) has no case.
CsvOpen ==
  /\ rpc = "l83"
  /\ file_exists
  /\ r_next' = 2
  /\ rpc' = "l86"
  /\ UNCHANGED <<hist, fixed, shut, file_lock, times_list, temps_list, ppm_list, levels_list, now,
                 fileVars, pc, round, loopLocals, buffers, thresholds, upc, uiLocals, published>>

\* csv.DictReader: the keys of a row's dict are the cells of the file's first
\* row (of two equal names the later column wins).  Col is the column of a
\* name, 0 when no column has it (row[name] raises KeyError); a row shorter
\* than the column gives None, which neither strptime nor float nor int takes.
Col(name) ==
  LET hits == {i \in 1..Len(store[1]) : store[1][i] = Str(name)}
  IN  IF hits = {} THEN 0 ELSE CHOOSE i \in hits : \A j \in hits : j <= i
HasCell(row, name) == Col(name) # 0 /\ Col(name) <= Len(row)
Cell(row, name) == row[Col(name)]

\* whether each of the four statements of lines 87-90 runs without raising
TimeOk(row) == HasCell(row, "Timestamp") /\ CanStrptime(Cell(row, "Timestamp"))
TempOk(row) ==
  HasCell(row, "TEMP") /\ (Cell(row, "TEMP") = Str("N/A") \/ CanFloat(Cell(row, "TEMP")))
GasOk(row) == HasCell(row, "PPM") /\ CanInt(Cell(row, "PPM"))
LevelOk(row) ==
  HasCell(row, "LEVEL") /\ (Cell(row, "LEVEL") = Str("N/A") \/ CanFloat(Cell(row, "LEVEL")))

\* the mutant of C14: the level read from the temperature column
ParseLevelFromTemp(row) ==
  IF Cell(row, "TEMP") # Str("N/A") THEN float(Cell(row, "TEMP")) ELSE None

\* float(row["LEVEL"]) if row["LEVEL"] != "N/A" else None
ParseLevel(row) ==
  IF Cell(row, "LEVEL") # Str("N/A") THEN float(Cell(row, "LEVEL")) ELSE None

\* lines 85-92: one row.  The four appends run one after the other; the
\* first that raises ends the row (except Exception: continue) and leaves
\* the entries already appended in their lists.
CsvReadRow ==
  /\ rpc = "l86"
  /\ r_next <= Len(store)
  /\ LET row == store[r_next]
         t == TimeOk(row)
         te == t /\ TempOk(row)
         g == te /\ GasOk(row)
         l == g /\ LevelOk(row)
     IN  /\ times_list' = IF t THEN Append(times_list, strptime(Cell(row, "Timestamp")))
                               ELSE times_list
         /\ temps_list' = IF te THEN Append(temps_list,
                                             IF Cell(row, "TEMP") # Str("N/A")
                                             THEN float(Cell(row, "TEMP")) ELSE None)
                                ELSE temps_list
         /\ ppm_list' = IF g THEN Append(ppm_list, int(Cell(row, "PPM"))) ELSE ppm_list
         /\ levels_list' = IF l THEN Append(levels_list, ParseLevel(row)) ELSE levels_list
  /\ r_next' = r_next + 1
  /\ UNCHANGED <<hist, fixed, shut, file_lock, rpc, now, fileVars, pc, round, loopLocals, buffers,
                 thresholds, upc, uiLocals, published>>

\* lines 85, 95: no row is left: the file is closed, the lock released, the
\* lists returned
CsvReturn ==
  /\ rpc = "l86"
  /\ r_next > Len(store)
  /\ file_lock' = "free"
  /\ rpc' = "returned"
  /\ UNCHANGED <<hist, fixed, shut, r_next, times_list, temps_list, ppm_list, levels_list, now,
                 fileVars, pc, round, loopLocals, buffers, thresholds, upc, uiLocals, published>>

read_csv_data == CsvAcquire \/ CsvOpen \/ CsvReadRow \/ CsvReturn

(***************************************************************************)
(* Shutdown.  gui: the window's close button runs on_close on the main     *)
(* thread: GPIO.cleanup(), then root.destroy(); mainloop() returns, the    *)
(* script ends and the interpreter exits without waiting for the daemon    *)
(* sensor thread, which runs on between the two statements and is cut off  *)
(* wherever it stands.  headless: Ctrl+C raises KeyboardInterrupt at the   *)
(* statement the loop is executing; the except clause prints, finally      *)
(* calls GPIO.cleanup() and the script ends.                               *)
(***************************************************************************)
\* the end of the process takes its memory with it
MemoryGone ==
  /\ timestamp' = None /\ temperature' = None /\ temp_val' = None /\ ppm_val' = None
  /\ level' = None /\ level_val' = None /\ anomaly' = None
  /\ times' = <<>> /\ temps' = <<>> /\ gas_values' = <<>> /\ levels' = <<>>
  /\ temp_threshold' = 5000 /\ gas_threshold' = 1
  /\ temps_clean' = <<>> /\ levels_clean' = <<>>
  /\ last_temp' = None /\ last_gas' = None /\ last_level' = None /\ fault_msg' = None
  /\ obs' = [temp |-> 0, gas |-> 0, level |-> 0]
  /\ file_lock' = "free"
  /\ rpc' = "idle" /\ r_next' = 0
  /\ times_list' = <<>> /\ temps_list' = <<>> /\ ppm_list' = <<>> /\ levels_list' = <<>>

\* on_close, line 266: GPIO.cleanup()
OnCloseCleanup ==
  /\ env.shutdown
  /\ upc \in {"idle", "stopped"}
  /\ gpio' = "cleaned"
  /\ upc' = "l267"
  /\ UNCHANGED <<hist, fixed, exit_pc, file_lock, csvLocals, now, fileVars, pc, round, loopLocals,
                 buffers, thresholds, uiLocals, published>>

\* on_close, line 267: self.root.destroy(), and the end of the process
OnCloseDestroy ==
  /\ upc = "l267"
  /\ upc' = "exited"
  /\ exit_pc' = pc
  /\ pc' = "exited"
  /\ MemoryGone
  /\ UNCHANGED <<hist, fixed, gpio, now, fileVars, round, published>>

on_close == OnCloseCleanup \/ OnCloseDestroy

\* headless: except KeyboardInterrupt: print(...); finally: GPIO.cleanup()
KeyboardInterrupt ==
  /\ env.shutdown
  /\ variant = "headless"
  /\ pc \in LoopPositions
  /\ gpio' = "cleaned"
  /\ exit_pc' = pc
  /\ pc' = "exited"
  /\ MemoryGone
  /\ UNCHANGED <<hist, fixed, now, fileVars, round, upc, published>>

(***************************************************************************)
(* The process ends (window closed, Ctrl+C, an uncaught exception, a kill) *)
(* and the program is started again on the store the old process left.     *)
(***************************************************************************)
Restart ==
  /\ starts < env.starts
  /\ round <= env.restartUntil
  /\ starts' = starts + 1
  /\ pc' = "startup"
  /\ round' = 0
  /\ timestamp' = None /\ temperature' = None /\ temp_val' = None /\ ppm_val' = None
  /\ level' = None /\ level_val' = None /\ anomaly' = None
  /\ times' = <<>> /\ temps' = <<>> /\ gas_values' = <<>> /\ levels' = <<>>
  /\ temp_threshold' = 5000 /\ gas_threshold' = 1
  /\ upc' = "none"
  /\ temps_clean' = <<>> /\ levels_clean' = <<>>
  /\ last_temp' = None /\ last_gas' = None /\ last_level' = None /\ fault_msg' = None
  /\ published' = <<>>
  /\ obs' = [temp |-> 0, gas |-> 0, level |-> 0]
  /\ gpio' = "setup" /\ exit_pc' = "none"
  /\ reads' = NoReads /\ produced' = <<>>
  /\ file_lock' = "free"
  /\ rpc' = "idle" /\ r_next' = 0
  /\ times_list' = <<>> /\ temps_list' = <<>> /\ ppm_list' = <<>> /\ levels_list' = <<>>
  /\ UNCHANGED <<env, variant, now, fileVars, probeVars, calcVars>>

Next ==
  \/ SetupGPIOError
  \/ SetupNonEmpty \/ SetupWriteHeader \/ SetupReadError \/ SetupAppendMode
  \/ StartApp
  \/ sensor_loop
  \/ update_plots
  \/ MoveTempSlider \/ MoveGasSlider
  \/ read_csv_data
  \/ on_close
  \/ KeyboardInterrupt
  \/ Restart

Spec == Init /\ [][Next]_vars

(***************************************************************************)
(* read_csv_data on a store the program did not write itself: the gui      *)
(* program is started on a file with any first row and any rows after it   *)
(* (well-formed, with one field that does not parse, or cut short) and the *)
(* store is read once the setup has run.                                   *)
(***************************************************************************)
GoodRow ==
  <<strftime(DateTime(0)), str(Float(2350)), str(PyInt(1)), Str("N/A"), Str("Yes")>>
CsvRows ==
  {GoodRow,
   [GoodRow EXCEPT ![1] = Str("yesterday")],
   [GoodRow EXCEPT ![2] = Str("warm")],
   [GoodRow EXCEPT ![3] = str(Float(100))],
   [GoodRow EXCEPT ![4] = Str("")],
   <<strftime(DateTime(0)), str(Float(2350))>>}
CsvHeaders == {writerow(Header), <<Str("Timestamp"), Str("TEMP"), Str("PPM")>>}
CsvStores ==
  {<<>>} \cup {<<h>> \o rows : h \in CsvHeaders,
                               rows \in UNION {[1..k -> CsvRows] : k \in 0..MaxCsvRows}}

InitCsv ==
  /\ env = EnvCsv /\ variant = "gui" /\ starts = 1 /\ now = 0
  /\ store \in CsvStores
  /\ file_exists \in BOOLEAN /\ (store # <<>> => file_exists)
  /\ ProcessStart
  /\ ProbeIdle
  /\ CalcStart

NextCsv ==
  \/ SetupNonEmpty \/ SetupWriteHeader \/ SetupReadError
  \/ StartApp
  \/ read_csv_data

SpecCsv == InitCsv /\ [][NextCsv]_vars

(***************************************************************************)
(* read_ultrasonic, one step per statement.  Time is counted in ticks of   *)
(* 10 ms: the 0.04 s timeouts are 4 ticks, the 0.1 s settle delay 10       *)
(* ticks, and a tick of pulse is 171.5 cm (17150 hundredths).  The         *)
(* environment advances the clock and moves the echo line (one pulse:      *)
(* low, high, low) between any two statements.                             *)
(***************************************************************************)
TimeoutTicks == 4
SettleTicks == 10
HundredthsPerTick == 17150

InitProbe ==
  /\ env = EnvLong /\ variant = "gui" /\ starts = 1 /\ now = 0
  /\ file_exists = FALSE /\ store = <<>>
  /\ ProcessStart
  /\ ppc = "l51" /\ clock = 0 /\ TRIG \in {0, 1} /\ ECHO = 0
  /\ pulse_start = 0 /\ pulse_end = 0 /\ timeout = 0 /\ distance = None
  /\ first_poll = NoTime /\ rise_time = NoTime /\ fall_time = NoTime
  /\ trig_out = <<>>
  /\ CalcStart

\* a wait loop is running and its deadline has not passed
PendingDeadline == ppc \in {"l60", "l61", "l67", "l68"} /\ clock <= timeout

\* time passes (the time before the trigger pulse is the settle delay's)
Tick ==
  /\ ppc \notin {"idle", "returned", "l51", "l54"}
  /\ clock < MaxClock \/ PendingDeadline
  /\ clock' = clock + 1
  /\ UNCHANGED <<mainVars, trig_out, ppc, TRIG, ECHO, pulse_start, pulse_end, timeout, distance,
                 first_poll, rise_time, fall_time>>

\* the sensor raises its echo line
EchoRise ==
  /\ ppc \notin {"idle", "returned", "l51", "l54"}
  /\ ECHO = 0 /\ rise_time = NoTime
  /\ ECHO' = 1
  /\ rise_time' = clock
  /\ UNCHANGED <<mainVars, trig_out, ppc, clock, TRIG, pulse_start, pulse_end, timeout, distance,
                 first_poll, fall_time>>

\* the sensor lowers its echo line
EchoFall ==
  /\ ppc \notin {"idle", "returned"}
  /\ ECHO = 1
  /\ ECHO' = 0
  /\ fall_time' = clock
  /\ UNCHANGED <<mainVars, trig_out, ppc, clock, TRIG, pulse_start, pulse_end, timeout, distance,
                 first_poll, rise_time>>

\* GPIO.output(ULTRASONIC_TRIG, False); time.sleep(0.1)
SettleLow ==
  /\ ppc = "l51"
  /\ TRIG' = 0
  /\ trig_out' = Append(trig_out, 0)
  /\ clock' = clock + SettleTicks
  /\ ppc' = "l54"
  /\ UNCHANGED <<mainVars, ECHO, pulse_start, pulse_end, timeout, distance,
                 first_poll, rise_time, fall_time>>

\* GPIO.output(ULTRASONIC_TRIG, True); time.sleep(0.00001)
TriggerHigh ==
  /\ ppc = "l54"
  /\ TRIG' = 1
  /\ trig_out' = Append(trig_out, 1)
  /\ ppc' = "l56"
  /\ UNCHANGED <<mainVars, clock, ECHO, pulse_start, pulse_end, timeout, distance,
                 first_poll, rise_time, fall_time>>

\* the mutant of C21: the trigger line is left high
TriggerLowMissing ==
  /\ ppc = "l56"
  /\ ppc' = "l58"
  /\ UNCHANGED <<mainVars, trig_out, TRIG, clock, ECHO, pulse_start, pulse_end, timeout,
                 distance, first_poll, rise_time, fall_time>>

\* GPIO.output(ULTRASONIC_TRIG, False)
TriggerLow ==
  /\ ppc = "l56"
  /\ TRIG' = 0
  /\ trig_out' = Append(trig_out, 0)
  /\ ppc' = "l58"
  /\ UNCHANGED <<mainVars, clock, ECHO, pulse_start, pulse_end, timeout, distance,
                 first_poll, rise_time, fall_time>>

\* pulse_start = time.time(); timeout = pulse_start + 0.04
StartWaitHigh ==
  /\ ppc = "l58"
  /\ pulse_start' = clock
  /\ timeout' = clock + TimeoutTicks
  /\ ppc' = "l60"
  /\ UNCHANGED <<mainVars, trig_out, clock, TRIG, ECHO, pulse_end, distance,
                 first_poll, rise_time, fall_time>>

\* while GPIO.input(ULTRASONIC_ECHO) == 0:
PollHigh ==
  /\ ppc = "l60"
  /\ first_poll' = IF first_poll = NoTime THEN clock ELSE first_poll
  /\ ppc' = IF ECHO = 0 THEN "l61" ELSE "l65"
  /\ UNCHANGED <<mainVars, trig_out, clock, TRIG, ECHO, pulse_start, pulse_end, timeout, distance,
                 rise_time, fall_time>>

\* the mutant of C17: the deadline of the first wait loop is never reached
RiseNeverTimesOut(t, deadline) == FALSE

\* whether the wait for the rising edge has timed out (line 62)
RiseTimedOut(t, deadline) == t > deadline

\* pulse_start = time.time(); if pulse_start > timeout: return None
WaitHighBody ==
  /\ ppc = "l61"
  /\ pulse_start' = clock
  /\ IF RiseTimedOut(clock, timeout)
     THEN distance' = None /\ ppc' = "returned"
     ELSE distance' = distance /\ ppc' = "l60"
  /\ UNCHANGED <<mainVars, trig_out, clock, TRIG, ECHO, pulse_end, timeout,
                 first_poll, rise_time, fall_time>>

\* pulse_end = time.time(); timeout = pulse_end + 0.04
StartWaitLow ==
  /\ ppc = "l65"
  /\ pulse_end' = clock
  /\ timeout' = clock + TimeoutTicks
  /\ ppc' = "l67"
  /\ UNCHANGED <<mainVars, trig_out, clock, TRIG, ECHO, pulse_start, distance,
                 first_poll, rise_time, fall_time>>

\* while GPIO.input(ULTRASONIC_ECHO) == 1:
PollLow ==
  /\ ppc = "l67"
  /\ ppc' = IF ECHO = 1 THEN "l68" ELSE "l72"
  /\ UNCHANGED <<mainVars, trig_out, clock, TRIG, ECHO, pulse_start, pulse_end, timeout, distance,
                 first_poll, rise_time, fall_time>>

\* whether the wait for the falling edge has timed out (line 69)
FallTimedOut(t, deadline) == t > deadline

\* pulse_end = time.time(); if pulse_end > timeout: return None
WaitLowBody ==
  /\ ppc = "l68"
  /\ pulse_end' = clock
  /\ IF FallTimedOut(clock, timeout)
     THEN distance' = None /\ ppc' = "returned"
     ELSE distance' = distance /\ ppc' = "l67"
  /\ UNCHANGED <<mainVars, trig_out, clock, TRIG, ECHO, pulse_start, timeout,
                 first_poll, rise_time, fall_time>>

\* pulse_duration = pulse_end - pulse_start; return round(pulse_duration * 17150, 2)
ReturnDistance ==
  /\ ppc = "l72"
  /\ distance' = Float((pulse_end - pulse_start) * HundredthsPerTick)
  /\ ppc' = "returned"
  /\ UNCHANGED <<mainVars, trig_out, clock, TRIG, ECHO, pulse_start, pulse_end, timeout,
                 first_poll, rise_time, fall_time>>

read_ultrasonic ==
  \/ SettleLow \/ TriggerHigh \/ TriggerLow
  \/ StartWaitHigh \/ PollHigh \/ WaitHighBody
  \/ StartWaitLow \/ PollLow \/ WaitLowBody
  \/ ReturnDistance

NextProbe == read_ultrasonic \/ Tick \/ EchoRise \/ EchoFall

SpecProbe == InitProbe /\ [][NextProbe]_vars

\* The thread that runs read_ultrasonic is scheduled again and again, and the
\* clock keeps advancing; the echo line is free to move or not.
SpecProbeFair == SpecProbe /\ WF_vars(read_ultrasonic) /\ WF_vars(Tick)

(***************************************************************************)
(* Experiment.py: the standard calculator.  A text is the sequence of its  *)
(* characters.  The buttons modelled are '1', '+' and '^' (whose command   *)
(* is press('')); eval is Python's eval on texts made of digits and '+'.   *)
(***************************************************************************)
\* the longest text a press may build
MaxExpr == 3
\* the most labels the history panel is followed to
MaxHistory == 2

\* the texts the modelled buttons hand to press
Buttons == {<<"1">>, <<"+">>, <<>>}

Digits == <<"0", "1", "2", "3", "4", "5", "6", "7", "8", "9">>
IsDigit(c) == \E d \in 1..10 : Digits[d] = c
DigitVal(c) == (CHOOSE d \in 1..10 : Digits[d] = c) - 1

\* eval raises (SyntaxError) on the empty text, on a text that ends in '+' and
\* on a number of more than one digit that starts with '0' and is not all
\* zeros; a '+' in front of a number or after another '+' is a unary plus
CanEval(e) ==
  /\ e # <<>>
  /\ IsDigit(e[Len(e)])
  /\ \A i \in 1..Len(e) :
        (e[i] = "0" /\ (i = 1 \/ e[i - 1] = "+")) =>
           \A j \in i..Len(e) : (\A k \in i..j : IsDigit(e[k])) => e[j] = "0"

\* the value of the text e from its i-th character on, cur being the number
\* read so far
RECURSIVE EvalFrom(_, _, _)
EvalFrom(e, i, cur) ==
  IF i > Len(e) THEN cur
  ELSE IF e[i] = "+" THEN cur + EvalFrom(e, i + 1, 0)
       ELSE EvalFrom(e, i + 1, cur * 10 + DigitVal(e[i]))

eval(e) == EvalFrom(e, 1, 0)

\* str(n) of an int n >= 0: its decimal text
RECURSIVE IntText(_)
IntText(n) ==
  IF n < 10 THEN <<Digits[n + 1]>>
  ELSE Append(IntText(n \div 10), Digits[(n % 10) + 1])

\* entry.delete(0, tk.END); entry.insert(tk.END, text)
EntryDelete == <<>>
EntryInsert(shown, text) == shown \o text

\* the mutant of C29: press inserts without deleting first
pressNoDelete ==
  \E num \in Buttons :
    /\ Len(expression) + Len(num) <= MaxExpr
    /\ expression' = expression \o num
    /\ entry' = EntryInsert(entry, expression')
    /\ UNCHANGED <<sensorVars, probeVars, history>>

press ==
  \E num \in Buttons :
    /\ Len(expression) + Len(num) <= MaxExpr
    /\ expression' = expression \o num
    /\ entry' = EntryInsert(EntryDelete, expression')
    /\ UNCHANGED <<sensorVars, probeVars, history>>

clear ==
  /\ expression' = <<>>
  /\ entry' = EntryDelete
  /\ UNCHANGED <<sensorVars, probeVars, history>>

\* expression[:-1] of the empty text is the empty text
backspace ==
  /\ expression' = SubSeq(expression, 1, Len(expression) - 1)
  /\ entry' = EntryInsert(EntryDelete, expression')
  /\ UNCHANGED <<sensorVars, probeVars, history>>

\* the try block runs to its end
EqualpressResult ==
  /\ CanEval(expression)
  /\ Len(history) < MaxHistory
  /\ LET result == IntText(eval(expression))
     IN  /\ entry' = EntryInsert(EntryDelete, result)
         /\ history' = Append(history, expression \o <<" ", "=", " ">> \o result)
         /\ expression' = result
  /\ UNCHANGED <<sensorVars, probeVars>>

\* eval raises: messagebox.showerror, expression = "", entry.delete
EqualpressError ==
  /\ ~CanEval(expression)
  /\ expression' = <<>>
  /\ entry' = EntryDelete
  /\ UNCHANGED <<sensorVars, probeVars, history>>

equalpress == EqualpressResult \/ EqualpressError

InitCalc ==
  /\ env = EnvSmall /\ variant = "gui" /\ starts = 1 /\ now = 0
  /\ file_exists = FALSE /\ store = <<>>
  /\ ProcessStart
  /\ ProbeIdle
  /\ CalcStart

NextCalc == press \/ clear \/ backspace \/ equalpress

SpecCalc == InitCalc /\ [][NextCalc]_vars

(***************************************************************************)
(* Properties                                                              *)
(***************************************************************************)
IsPrefix(a, b) == Len(a) <= Len(b) /\ \A i \in 1..Len(a) : a[i] = b[i]

Publishing == pc \in {"pub_times", "pub_temps", "pub_gas", "pub_levels"}
Trimming == pc \in {"trim_times", "trim_temps", "trim_gas", "trim_levels"}
\* this round's row is the last row of the store
Logged == Publishing \/ Trimming \/ pc = "sleep"
LastRow == store[Len(store)]
LoggedFlag == LastRow[5]

\* C1: a round whose temperature or distance reading is absent computes and logs
\* the anomaly flag 'Yes', whatever the other readings and the thresholds are.
C1_AbsentIsAnomalous ==
  (temperature = None \/ level = None) =>
     /\ pc = "append" => anomaly = Str("Yes")
     /\ Logged => LoggedFlag = Str("Yes")

C1_Witness ==
  /\ Logged /\ temperature = None /\ level = Float(12034)
  /\ LoggedFlag = Str("Yes")

\* C2: with both readings present the logged flag is 'No' exactly when
\* 0 <= temperature <= 50 and 0 <= distance <= 400, the bounds included.
C2_InRangeIffNo ==
  (Logged /\ temperature # None /\ level # None) =>
     (LoggedFlag = Str("No") <=>
        (0 <= temperature.n /\ temperature.n <= 5000 /\ 0 <= level.n /\ level.n <= 40000))

C2_Witness ==
  /\ Logged /\ temperature = Float(5000) /\ level = Float(40000)
  /\ LoggedFlag = Str("No")

\* C3: between two rounds, after k completed rounds, the containers hold exactly
\* the last min(k, 100) published samples in publish order.
C3_LastSamplesKept ==
  (variant = "gui" /\ pc \in {"sleep", "timestamp"}) =>
     LET k == Len(published)
         m == IF k < 100 THEN k ELSE 100
     IN  /\ k = (IF pc = "sleep" THEN round + 1 ELSE round)
         /\ Len(times) = m /\ Len(temps) = m /\ Len(gas_values) = m /\ Len(levels) = m
         /\ \A i \in 1..m :
              [time |-> times[i], temp |-> temps[i], gas |-> gas_values[i], level |-> levels[i]]
                = published[k - m + i]

C3_Witness ==
  /\ pc = "timestamp" /\ round = 101 /\ Len(published) = 101
  /\ Len(times) = 100 /\ times[1] = published[2].time /\ times[1] # published[1].time

\* C4: whatever a refresh reads from the containers belongs to one point of the
\* publish sequence: the sequences it plots have equal lengths, and the latest
\* temperature, gas and level it uses come from the same round.
C4_RefreshSeesOneRound ==
  /\ upc # "stopped"
  /\ upc = "l252" => (obs.temp = obs.gas /\ obs.gas = obs.level)

\* C5: the store is append-only: every step leaves the rows already written in
\* place and unchanged (the header is created only in an absent or empty store).
C5_AppendOnly == [][IsPrefix(store, store')]_vars

\* C6: the setup of a store that is not empty leaves it unchanged, the setup of
\* an absent or empty store leaves exactly the header row.
C6_SetupIdempotent ==
  [][(pc = "startup" /\ pc' \notin {"startup", "aborted"}) =>
        store' = (IF file_exists /\ store # <<>> THEN store ELSE <<writerow(Header)>>)]_vars

\* C7: if the echo line does not go high within 40 ms of the first poll,
\* read_ultrasonic returns None, never a distance.
C7_NoRiseIsAbsent ==
  (ppc = "returned" /\ first_poll # NoTime
    /\ (rise_time = NoTime \/ rise_time > first_poll + TimeoutTicks))
     => distance = None

\* C8: if the echo line stays high for more than 40 ms from the instant it went
\* high, read_ultrasonic returns None, never a distance.
C8_StuckHighIsAbsent ==
  (ppc = "returned" /\ rise_time # NoTime
    /\ (IF fall_time = NoTime THEN clock > rise_time + TimeoutTicks
                              ELSE fall_time > rise_time + TimeoutTicks))
     => distance = None

\* C9: the row is appended before the sample is published: while a sample is
\* being published its row is already the last row of the store, and in every
\* state the element of a container that comes from round r is the field that
\* the row appended in round r holds (rows of this process end the store).
RowsOfProcess == IF Logged THEN round + 1 ELSE round
RowOfRound(r) == store[Len(store) - RowsOfProcess + r]
FieldsLogged(container, name, field(_)) ==
  \A i \in 1..Len(container) :
     LET r == Appended(name) - Len(container) + i
     IN  /\ 1 <= r /\ r <= RowsOfProcess /\ RowsOfProcess <= Len(store)
         /\ RowParses(RowOfRound(r))
         /\ field(ParseRow(RowOfRound(r))) = container[i]

C9_BufferedIsLogged ==
  /\ Publishing =>
       /\ store # <<>> /\ RowParses(LastRow)
       /\ ParseRow(LastRow) = [time |-> strptime(timestamp), temp |-> temperature,
                               gas |-> ppm_val, level |-> level]
  /\ FieldsLogged(times, "times", LAMBDA s : s.time)
  /\ FieldsLogged(temps, "temps", LAMBDA s : s.temp)
  /\ FieldsLogged(gas_values, "gas_values", LAMBDA s : s.gas)
  /\ FieldsLogged(levels, "levels", LAMBDA s : s.level)

C9_Witness ==
  /\ pc = "pub_temps" /\ Len(times) = 2 /\ Len(temps) = 1
  /\ temperature = None /\ ParseRow(LastRow).temp = None
  /\ ParseRow(LastRow).time = times[2]

\* C10: a failed append does not end the acquisition loop: no step taken from
\* the append leaves the loop dead ("dead" is where an uncaught exception
\* leaves it).
C10_LoopSurvivesAppendError == [][AtAppend => pc' # "dead"]_vars

\* C11: when the process is shut down (window closed, Ctrl+C) while a round is
\* under way, the loop completes that round before the process exits: no
\* process exits with its loop between the first sensor read of a round and
\* the append of the round's row.
C11_RoundCompletesBeforeExit ==
  pc = "exited" => exit_pc \notin {"gas", "ultrasonic", "classify", "append", "append_locked"}

\* C12: the pins are deactivated only after the acquisition loop has exited:
\* in no state are the pins released while the loop can still read or drive
\* one.
C12_CleanupAfterLoopExit ==
  gpio = "cleaned" => pc \in {"exited", "dead"}

\* C13: the store is accessed under mutual exclusion: the loop's append and
\* read_csv_data are never inside their file_lock blocks at the same time, the
\* lock is held exactly by the one that is inside, and the setup runs before
\* either of them exists.
C13_StoreMutex ==
  /\ ~(pc = "append_locked" /\ rpc \in {"l83", "l86"})
  /\ file_lock = "loop" <=> pc = "append_locked"
  /\ file_lock = "reader" <=> rpc \in {"l83", "l86"}
  /\ pc \in {"startup", "app_init"} => (rpc = "idle" /\ file_lock = "free")

C13_Witness ==
  /\ rpc = "l86" /\ r_next = 2 /\ Len(store) = 2
  /\ pc = "append" /\ round = 1

\* C14: a row written by the loop and read back by read_csv_data gives the
\* sample's values again: the same timestamp to the second, the same numbers,
\* and an absent reading where the sample had one ('N/A' in the row).  Every
\* row is read (none is skipped).
SampleOfRound(r) ==
  IF r <= Len(published) THEN published[r]
  ELSE [time |-> strptime(timestamp), temp |-> temperature, gas |-> ppm_val, level |-> level]

C14_RoundTrip ==
  rpc = "returned" =>
     /\ Len(times_list) = r_next - 2
     /\ Len(temps_list) = Len(times_list) /\ Len(ppm_list) = Len(times_list)
     /\ Len(levels_list) = Len(times_list)
     /\ \A i \in 1..Len(times_list) :
          LET r == i - (Len(store) - 1 - RowsOfProcess)
          IN  r >= 1 =>
                [time |-> times_list[i], temp |-> temps_list[i], gas |-> ppm_list[i],
                 level |-> levels_list[i]] = SampleOfRound(r)

C14_Witness ==
  /\ rpc = "returned" /\ Len(published) = 2
  /\ temps_list = <<None, Float(2350)>> /\ levels_list = <<Float(12034), None>>
  /\ ppm_list = <<PyInt(1), PyInt(0)>>
  /\ published[1].temp = None /\ published[2].level = None

\* C15: the logged anomaly flag depends on the temperature and the distance
\* only: a row just appended has the flag of every earlier row with the same
\* temperature and distance cells, whatever the gas readings were and wherever
\* the display thresholds stood.
C15_FlagIgnoresGasAndThresholds ==
  Logged =>
    \A i \in 2..(Len(store) - 1) :
       (store[i][2] = LastRow[2] /\ store[i][4] = LastRow[4]) => store[i][5] = LoggedFlag

C15_Witness ==
  /\ Logged /\ Len(store) = 3
  /\ store[2][2] = str(Float(2350)) /\ store[3][2] = store[2][2] /\ store[3][4] = store[2][4]
  /\ store[2][3] = str(PyInt(0)) /\ store[3][3] = str(PyInt(1))
  /\ temp_threshold = 2000 /\ gas_threshold = 0
  /\ store[2][5] = Str("No") /\ LoggedFlag = Str("No")

\* C16: an absent temperature or distance reading is not an error: the read
\* step takes the loop on to its next statement with 'N/A' as the value to
\* log; the row of the round has 'N/A' in exactly the absent fields, the gas
\* value as read and the flag 'Yes'; the sample is published with exactly
\* those fields absent; the round reaches its sleep like any other.
C16_RowAndSample ==
  /\ Logged =>
       /\ LastRow[2] = Str("N/A") <=> temperature = None
       /\ LastRow[4] = Str("N/A") <=> level = None
       /\ LastRow[3] = str(ppm_val)
       /\ (temperature = None \/ level = None) => LoggedFlag = Str("Yes")
  /\ (variant = "gui" /\ (Trimming \/ pc = "sleep")) =>
       /\ temps[Len(temps)] = temperature
       /\ levels[Len(levels)] = level
       /\ gas_values[Len(gas_values)] = ppm_val

C16_AbsentIsNoError ==
  [][/\ (pc = "dht" /\ pc' \notin {"dht", "startup", "exited"}) =>
          (pc' = "gas" /\ temp_val' = (IF temperature' = None THEN Str("N/A") ELSE temperature'))
     /\ (pc = "ultrasonic" /\ gpio = "setup" /\ pc' \notin {"ultrasonic", "startup", "exited"}) =>
          (pc' = "classify" /\ level_val' = (IF level' = None THEN Str("N/A") ELSE level'))
     /\ C16_RowAndSample']_vars

C16_Witness ==
  /\ variant = "gui" /\ pc = "timestamp" /\ round = 1
  /\ temperature = None /\ level = None
  /\ LastRow[2] = Str("N/A") /\ LastRow[4] = Str("N/A") /\ LastRow[5] = Str("Yes")
  /\ temps = <<None>> /\ levels = <<None>> /\ gas_values = <<ppm_val>>

\* C17: the acquisition loop never blocks: whatever the echo line does, a
\* call of read_ultrasonic returns (a distance or None) once the clock has
\* advanced far enough, so the round goes on to its later steps.
C17_ProbeReturns == <>(ppc = "returned")

C17_Witness ==
  /\ ppc = "returned" /\ distance = None
  /\ rise_time = NoTime /\ ECHO = 0
  /\ clock > first_poll + TimeoutTicks

\* C18: a round produces exactly one sample: once its readings are taken each
\* sensor has been read exactly once in the round, the process has appended
\* one row per round (a first process on a new store: the header and k rows
\* after k rounds) and published one sample per round.
InRoundAfterReads ==
  pc \in {"classify", "append", "append_locked"} \/ Logged

C18_OneSamplePerRound ==
  /\ InRoundAfterReads => reads = [dht |-> 1, gas |-> 1, level |-> 1]
  /\ (starts = 1 /\ pc \in LoopPositions \cup {"dead"}) => Len(store) = 1 + RowsOfProcess
  /\ (variant = "gui" /\ pc \in LoopPositions) => Len(published) = Appended("times")
  /\ pc \in LoopPositions =>
       Len(produced) = (IF InRoundAfterReads /\ pc # "classify" THEN round + 1 ELSE round)

C18_Witness ==
  /\ variant = "gui" /\ starts = 1 /\ pc = "sleep" /\ round = 1
  /\ reads = [dht |-> 1, gas |-> 1, level |-> 1]
  /\ level = None
  /\ Len(store) = 3 /\ Len(published) = 2

\* C19: in every state, the states in the middle of a round that a refresh
\* can observe included, each container holds at most max_len = 100 records.
C19_NeverMoreThanMaxLen ==
  /\ Len(times) <= max_len /\ Len(temps) <= max_len
  /\ Len(gas_values) <= max_len /\ Len(levels) <= max_len

\* C20: the rows of the log are in round order and whole: the i-th row a
\* process has appended is the row of its i-th round, with that round's
\* timestamp, readings and flag; the three scripted samples give the flags
\* No, Yes, Yes in that order and a history of three samples in that order.
RowOfSample(x) ==
  writerow(<<x.time, IF x.temp # None THEN x.temp ELSE Str("N/A"), x.gas,
             IF x.level # None THEN x.level ELSE Str("N/A"), x.anomaly>>)

C20_RowsInRoundOrder ==
  pc \in LoopPositions \cup {"dead"} =>
     /\ RowsOfProcess <= Len(produced) /\ RowsOfProcess < Len(store)
     /\ \A r \in 1..RowsOfProcess : RowOfRound(r) = RowOfSample(produced[r])
     /\ (env.name = "script" /\ round = 3) =>
          /\ Len(store) = 4
          /\ <<store[2][5], store[3][5], store[4][5]>> = <<Str("No"), Str("Yes"), Str("Yes")>>
          /\ variant = "gui" =>
               /\ temps = <<Float(2350), None, Float(5500)>>
               /\ gas_values = <<PyInt(0), PyInt(1), PyInt(0)>>
               /\ levels = <<Float(12034), None, Float(12000)>>
               /\ Len(times) = 3

C20_Witness ==
  /\ env.name = "script" /\ variant = "gui" /\ round = 3 /\ pc = "timestamp"
  /\ Len(store) = 4 /\ store[2][5] = Str("No") /\ store[3][5] = Str("Yes")
  /\ store[4][5] = Str("Yes") /\ store[4][2] = str(Float(5500))
  /\ temps = <<Float(2350), None, Float(5500)>>

\* C21: in a call of read_ultrasonic the trigger line is driven low, then
\* high, then low, in that order and before the echo line is first polled,
\* and the line is low whenever the call has returned (with a distance, on
\* the rise timeout or on the stuck-high timeout).
C21_TriggerPulse ==
  /\ IsPrefix(trig_out, <<0, 1, 0>>)
  /\ first_poll # NoTime => trig_out = <<0, 1, 0>>
  /\ ppc = "returned" => (TRIG = 0 /\ trig_out = <<0, 1, 0>>)
  /\ trig_out # <<>> => TRIG = trig_out[Len(trig_out)]

C21_Witness ==
  /\ ppc = "returned" /\ distance # None
  /\ trig_out = <<0, 1, 0>> /\ TRIG = 0

\* C22: the fault summary a refresh shows is a function of the latest
\* buffered sample and of the thresholds of that moment: empty for an empty
\* buffer, 'Sensor data missing' when the sample's temperature or level is
\* absent, else 'fault detected' exactly when temperature > temp_threshold or
\* gas > gas_threshold or the level is outside [0, 400], else empty.  The
\* sample may be any that was the latest while the refresh read the
\* containers (sample 0 stands for the empty buffer).
ClaimedFault(k) ==
  IF k = 0 THEN Str("")
  ELSE LET p == published[k]
       IN  IF p.temp = None \/ p.level = None THEN Str("Critical fault: Sensor data missing!")
           ELSE IF p.temp.n > temp_threshold \/ p.gas.n > gas_threshold
                   \/ p.level.n < 0 \/ p.level.n > 400 * 100
                THEN Str("Critical fault detected!")
                ELSE Str("")

C22_FaultOfLatestSample ==
  upc = "l260" => \E k \in {obs.temp, obs.gas, obs.level} : fault_msg = ClaimedFault(k)

\* C23: a step of update_plots or a move of a threshold slider changes
\* neither the containers nor the log nor the loop's variables, and no row
\* of the log ever holds a fault message.
FaultTexts == {Str("Critical fault: Sensor data missing!"), Str("Critical fault detected!")}

C23_RefreshWritesNothing ==
  [][/\ (update_plots \/ MoveTempSlider \/ MoveGasSlider) =>
          UNCHANGED <<buffers, fileVars, loopLocals, pc, round>>
     /\ store' # store => \A c \in 1..Len(LastRow') : LastRow'[c] \notin FaultTexts]_vars

C23_Witness ==
  /\ upc = "l260" /\ fault_msg = Str("Critical fault: Sensor data missing!")
  /\ temp_threshold = 2000 /\ gas_threshold = 0
  /\ Len(temps) = 2 /\ temps[2] = None /\ Len(store) = 3

\* C24: read_csv_data skips a row that fails to parse any of its fields as a
\* whole: for any store the four lists it returns have equal lengths, with
\* one entry each per well-formed row and none for a malformed row.
WellFormed(row) == TimeOk(row) /\ TempOk(row) /\ GasOk(row) /\ LevelOk(row)

C24_MalformedRowsSkippedWhole ==
  rpc = "returned" =>
     LET n == Cardinality({i \in 2..Len(store) : WellFormed(store[i])})
     IN  /\ Len(times_list) = n /\ Len(temps_list) = n
         /\ Len(ppm_list) = n /\ Len(levels_list) = n

\* C25: when the claim of the I/O pins fails at startup the process is aborted
\* there: the failing step leaves the store as it found it, and while the
\* failure stands no round has been executed, no sensor has been read, no
\* sample has been produced or published and the containers are empty.
C25_PinClaimFailureAborts ==
  [][gpio' = "failed" =>
       /\ pc' = "aborted"
       /\ UNCHANGED fileVars
       /\ round' = 0 /\ reads' = NoReads /\ produced' = <<>> /\ published' = <<>>
       /\ times' = <<>> /\ temps' = <<>> /\ gas_values' = <<>> /\ levels' = <<>>
       /\ upc' = "none"]_vars

C25_Witness ==
  /\ gpio = "failed" /\ pc = "aborted" /\ starts = 2
  /\ Len(store) >= 2 /\ round = 0 /\ published = <<>>

\* C26: with both thresholds at their defaults, a refresh that shows a fault
\* message shows it for a round the log marks 'Yes': the latest sample the
\* refresh has read from the containers has the logged flag 'Yes'.
LatestRead ==
  CHOOSE k \in {obs.temp, obs.gas, obs.level} : obs.temp <= k /\ obs.gas <= k /\ obs.level <= k

RecordRow(row) ==
  /\ Len(row) = 5
  /\ RowParses(row)
  /\ row[5] \in {Str("Yes"), Str("No")}

C27_HeaderThenRecords ==
  /\ pc \in LoopPositions => store # <<>>
  /\ store # <<>> =>
       /\ store[1] = writerow(Header)
       /\ \A i \in 2..Len(store) : RecordRow(store[i])

C27_Witness ==
  /\ starts = 2 /\ pc = "sleep"
  /\ Len(store) >= 3 /\ store[1] = writerow(Header) /\ RecordRow(store[Len(store)])

\* C28: the flag the loop of ESD_Essentials_project.py and of Sensor_CSV.py
\* has computed with its two separate range checks is the flag the single
\* combined condition of ESD_Essentials_projec_with_comments.py gives for the
\* same temperature and level, present or absent.
C28_VariantsAgreeOnFlag ==
  (pc \in {"append", "append_locked"} \/ Logged) =>
     /\ anomaly = DetectAnomalyCombined(temp_val, level_val)
     /\ DetectAnomaly(temp_val, level_val) = DetectAnomalyCombined(temp_val, level_val)

C28_Witness ==
  /\ variant = "headless" /\ pc = "append"
  /\ temp_val = Float(2350) /\ level_val = Float(40001)
  /\ anomaly = Str("Yes") /\ anomaly = DetectAnomalyCombined(temp_val, level_val)

\* C29: after each of press, clear, backspace and equalpress the Entry shows
\* the global expression; after an evaluation that fails both are empty,
\* after one that succeeds both are the text of the result.
C29_EntryShowsExpression ==
  [][/\ entry' = expression'
     /\ equalpress =>
          expression' = (IF CanEval(expression) THEN IntText(eval(expression)) ELSE <<>>)]_vars

C29_Witness ==
  /\ expression = <<"2">> /\ entry = <<"2">>
  /\ history = <<<<"1", "+", "1", " ", "=", " ", "2">>>>

====
